---------------------------- MODULE Spec2Model ----------------------------
(***************************************************************************)
(* Model of torchpack/callbacks/writers.py: the Writer base class and the  *)
(* ConsoleWriter, TFEventWriter and JSONWriter callbacks, driven by a host *)
(* trainer that issues add_scalar / add_image and the lifecycle hooks in   *)
(* an order it controls.                                                   *)
(*                                                                         *)
(* The three writers are independent objects: a behaviour exercises one of *)
(* them, chosen in Init (variable writer).  JSONWriter is modelled on two  *)
(* processes that share one save path.                                     *)
(***************************************************************************)
EXTENDS Integers, Sequences, FiniteSets, TLC

VARIABLES
    writer,     \* which writer class this behaviour exercises
    rank,       \* rank[p]: distributed rank of process p (0 is the master)
    trainer,    \* trainer[p]: the host trainer's counters on process p
    matcher,    \* ConsoleWriter.matcher: the pattern list given to __init__
    scalars,    \* ConsoleWriter.scalars: dict, as its items in insertion order
    emitted,    \* the logger.info messages issued by the last call
    interval,   \* history: add_scalar calls the host made since the last trigger
    flushed,    \* history: the calls flushed by the last call, if a trigger
    nTriggers,  \* history: number of console triggers so far
    tfCalls,    \* TFEventWriter.writer: calls received by the SummaryWriter
    tfHost,     \* history: calls the host made on the TFEventWriter
    summaries,  \* summaries[p]: JSONWriter.summaries on process p
    hasList,    \* hasList[p]: the attribute summaries exists on process p
    file,       \* <save_dir>/scalars.json: [exists, content]
    raised,     \* raised[p]: the last call on process p raised to the host
    runs,       \* number of JSONWriter instances constructed after the first
    saved,      \* history: [valid, list, by], the save that produced file
    loaded,     \* history: loaded[p], the list set by the last _before_train
    added,      \* history: added[p], the add_scalar calls recorded since then
    failedAt,   \* history: failedAt[p], the list length at the last failed
                \* save since then (-1: none)
    lastOp      \* history: the last call the host made

vars == <<writer, rank, trainer, matcher, scalars, emitted, interval, flushed,
          nTriggers, tfCalls, tfHost, summaries, hasList, file, raised, runs,
          saved, loaded, added, failedAt,
          lastOp>>

consoleVars == <<matcher, scalars, emitted, interval, flushed, nTriggers>>
tfVars == <<tfCalls, tfHost>>
jsonVars == <<summaries, hasList, file, raised, runs, saved, loaded, added,
              failedAt>>

---------------------------------------------------------------------------
(* Bounds of the model. *)

\* add_scalar / add_image calls between two console triggers
MaxAdds == 3
\* console triggers in one behaviour
MaxTriggers == 2
\* calls the host makes on the TFEventWriter in one behaviour
MaxTFCalls == 4
\* records in one JSONWriter's summaries list
MaxRecords == 2
\* JSONWriter instances constructed after the first (new runs)
MaxRuns == 1

---------------------------------------------------------------------------
(* Processes and the distributed service. *)

Procs == {1, 2}

\* dist.is_master(): the process is the primary rank
is_master(p) == rank[p] = 0

\* The master_only class attribute of each writer class.
master_only(w) ==
    CASE w = "console" -> TRUE
      [] w = "tfevent" -> TRUE
      [] w = "json"    -> FALSE

\* Variant of WriterForwards that ignores the master_only attribute.
WriterForwardsMasterOnly(w, p) == is_master(p)

\* The guard of Writer.add_scalar and Writer.add_image.
WriterForwards(w, p) == is_master(p) \/ ~master_only(w)

---------------------------------------------------------------------------
(* Python values used by the writers. *)

\* Metric names of the console model, as sequences of code points, so that
\* Python's string order is computed: "a", "ab", "b".
ConsoleNames == {<<97>>, <<97, 98>>, <<98>>}

\* Scalars logged to the console (integers; format() converts them exactly).
ConsoleScalars == {7, 123445}

\* str.__lt__: lexicographic order by code point, a proper prefix first.
RECURSIVE StrLess(_, _)
StrLess(a, b) ==
    IF b = <<>> THEN FALSE
    ELSE IF a = <<>> THEN TRUE
    ELSE IF Head(a) # Head(b) THEN Head(a) < Head(b)
    ELSE StrLess(Tail(a), Tail(b))

\* dict.__setitem__ on a dict kept as its items in insertion order: an
\* existing key keeps its place and takes the new value, a new key goes last.
DictSet(d, k, v) ==
    IF \E i \in 1..Len(d) : d[i][1] = k
    THEN [i \in 1..Len(d) |-> IF d[i][1] = k THEN <<k, v>> ELSE d[i]]
    ELSE Append(d, <<k, v>>)

DictKeys(d) == {d[i][1] : i \in 1..Len(d)}

DictGet(d, k) == d[CHOOSE i \in 1..Len(d) : d[i][1] = k][2]

\* Variant of SortedItems that keeps the insertion order (no sort).
UnsortedItems(d) == d

\* sorted(d.items()): the items in increasing order of name (selection of
\* the least remaining name; names of a dict are distinct).
RECURSIVE SortedItems(_)
SortedItems(d) ==
    IF d = <<>> THEN <<>>
    ELSE LET m == CHOOSE i \in 1..Len(d) :
                    \A j \in 1..Len(d) : j = i \/ StrLess(d[i][1], d[j][1])
             rest == [i \in 1..(Len(d) - 1) |-> IF i < m THEN d[i] ELSE d[i + 1]]
         IN  <<d[m]>> \o SortedItems(rest)

RECURSIVE Pow10(_)
Pow10(n) == IF n = 0 THEN 1 ELSE 10 * Pow10(n - 1)

\* Number of decimal digits of a natural number (1 for 0).
RECURSIVE Digits(_)
Digits(n) == IF n < 10 THEN 1 ELSE 1 + Digits(n \div 10)

\* str(n) for a natural number: the code points of its decimal numeral.
RECURSIVE DecimalDigits(_)
DecimalDigits(n) ==
    IF n < 10 THEN <<48 + n>>
    ELSE Append(DecimalDigits(n \div 10), 48 + (n % 10))

\* A natural number without its trailing decimal zeros.
RECURSIVE StripZeros(_)
StripZeros(n) == IF n # 0 /\ n % 10 = 0 THEN StripZeros(n \div 10) ELSE n

\* '{:.5g}'.format(v) for a natural number v: v itself when it has at most 5
\* digits; otherwise v rounded to 5 significant digits (ties to even) in
\* exponent notation, trailing zeros of the mantissa removed, a two-digit
\* exponent: 123445 -> "1.2344e+05".
Format5g(v) ==
    IF Digits(v) <= 5 THEN DecimalDigits(v)
    ELSE LET unit == Pow10(Digits(v) - 5)
             q    == v \div unit
             r    == v % unit
             up   == (2 * r > unit) \/ (2 * r = unit /\ q % 2 = 1)
             q1   == IF up THEN q + 1 ELSE q
             carry == q1 = 100000
             mant == DecimalDigits(StripZeros(IF carry THEN 1 ELSE q1))
             exp  == Digits(v) - 1 + (IF carry THEN 1 ELSE 0)
             frac == IF Len(mant) = 1 THEN <<>> ELSE <<46>> \o Tail(mant)
             expd == IF exp < 10 THEN <<48>> \o DecimalDigits(exp)
                     ELSE DecimalDigits(exp)
         IN  <<Head(mant)>> \o frac \o <<101, 43>> \o expd

\* '[{}] = {:.5g}'.format(name, scalar)
Text(name, scalar) == <<91>> \o name \o <<93, 32, 61, 32>> \o Format5g(scalar)

\* The separator '\n+ ' of the log message.
Separator == <<10, 43, 32>>

\* sep.join(parts) on strings.
RECURSIVE Join(_, _)
Join(sep, parts) ==
    IF parts = <<>> THEN <<>>
    ELSE IF Len(parts) = 1 THEN parts[1]
    ELSE parts[1] \o sep \o Join(sep, Tail(parts))

---------------------------------------------------------------------------
(* NameMatcher: glob patterns, "*" (code point 42) matching any run of     *)
(* characters.                                                             *)

RECURSIVE GlobMatch(_, _)
GlobMatch(pat, name) ==
    IF pat = <<>> THEN name = <<>>
    ELSE IF Head(pat) = 42
         THEN GlobMatch(Tail(pat), name)
              \/ (name # <<>> /\ GlobMatch(pat, Tail(name)))
         ELSE name # <<>> /\ Head(pat) = Head(name)
              /\ GlobMatch(Tail(pat), Tail(name))

\* NameMatcher.match(name): some pattern of the list matches.
Match(patterns, name) == \E pat \in patterns : GlobMatch(pat, name)

\* The pattern lists given to ConsoleWriter(scalars=...): '*' (the default),
\* 'a*', ['b'], and [] (nothing matches).
PatternLists == {{<<42>>}, {<<97, 42>>}, {<<98>>}, {}}

---------------------------------------------------------------------------
(* ConsoleWriter.  The writer lives on process Self. *)

Self == 1

\* ConsoleWriter._add_scalar: self.scalars[name] = scalar
Console_add_scalar(d, name, scalar) == DictSet(d, name, scalar)

\* The texts list built by ConsoleWriter._trigger from the buffer d.
RECURSIVE TextsOf(_, _)
TextsOf(items, patterns) ==
    IF items = <<>> THEN <<>>
    ELSE LET name   == Head(items)[1]
             scalar == Head(items)[2]
         IN  (IF Match(patterns, name) THEN <<Text(name, scalar)>> ELSE <<>>)
             \o TextsOf(Tail(items), patterns)

ConsoleTexts(d, patterns) == TextsOf(SortedItems(d), patterns)

\* The logger.info calls of ConsoleWriter._trigger: one message when texts
\* is not empty, '\n+ '.join([''] + texts).
ConsoleLog(texts) ==
    IF texts # <<>> THEN <<Join(Separator, <<<<>>>> \o texts)>> ELSE <<>>

\* Variant of ConsoleClear that removes only the entries that were logged.
ConsoleClearMatched(d, patterns) ==
    SelectSeq(d, LAMBDA item : ~Match(patterns, item[1]))

\* self.scalars.clear() at the end of ConsoleWriter._trigger
ConsoleClear(d, patterns) == <<>>

\* Writer.add_scalar(name, scalar) on a ConsoleWriter.
ConsoleAddScalar(name, scalar) ==
    /\ writer = "console"
    /\ Len(interval) < MaxAdds
    /\ scalars' = IF WriterForwards("console", Self)
                  THEN Console_add_scalar(scalars, name, scalar)
                  ELSE scalars
    /\ interval' = Append(interval, <<name, scalar>>)
    /\ emitted' = <<>>
    /\ flushed' = <<>>
    /\ lastOp' = [op |-> "add_scalar", p |-> Self,
                  res |-> IF WriterForwards("console", Self)
                          THEN "done" ELSE "skipped"]
    /\ UNCHANGED <<writer, rank, trainer, matcher, nTriggers>>
    /\ UNCHANGED <<tfVars, jsonVars>>

\* Writer.add_image(name, tensor) on a ConsoleWriter: the hook _add_image is
\* the base class's, which does nothing.
ConsoleAddImage ==
    /\ writer = "console"
    /\ emitted' = <<>>
    /\ flushed' = <<>>
    /\ lastOp' = [op |-> "add_image", p |-> Self,
                  res |-> IF WriterForwards("console", Self)
                          THEN "done" ELSE "skipped"]
    /\ UNCHANGED <<writer, rank, trainer, matcher, scalars, interval, nTriggers>>
    /\ UNCHANGED <<tfVars, jsonVars>>

\* ConsoleWriter._trigger, and _trigger_epoch which calls it.
ConsoleTrigger(op) ==
    /\ writer = "console"
    /\ nTriggers < MaxTriggers
    /\ emitted' = ConsoleLog(ConsoleTexts(scalars, matcher))
    /\ scalars' = ConsoleClear(scalars, matcher)
    /\ flushed' = interval
    /\ interval' = <<>>
    /\ nTriggers' = nTriggers + 1
    /\ lastOp' = [op |-> op, p |-> Self, res |-> "done"]
    /\ UNCHANGED <<writer, rank, trainer, matcher>>
    /\ UNCHANGED <<tfVars, jsonVars>>

ConsoleNext ==
    \/ \E name \in ConsoleNames, scalar \in ConsoleScalars :
          ConsoleAddScalar(name, scalar)
    \/ ConsoleAddImage
    \/ ConsoleTrigger("trigger")
    \/ ConsoleTrigger("trigger_epoch")

---------------------------------------------------------------------------
(* The host trainer's counters (read by TFEventWriter and JSONWriter). *)

\* The counters at the successive moments the host calls a writer: before
\* the first epoch, in the first epoch, in the second epoch.
TrainerRun ==
    << [epoch_num |-> 0, global_step |-> 0, local_step |-> 0],
       [epoch_num |-> 1, global_step |-> 2, local_step |-> 2],
       [epoch_num |-> 2, global_step |-> 3, local_step |-> 1] >>

TrainerStart == TrainerRun[1]

\* The trainer of process p runs on to its next counters.
HostAdvance(p) ==
    /\ \E i \in 1..(Len(TrainerRun) - 1) :
          /\ trainer[p] = TrainerRun[i]
          /\ trainer' = [trainer EXCEPT ![p] = TrainerRun[i + 1]]
    /\ lastOp' = [op |-> "advance", p |-> p, res |-> "done"]
    /\ UNCHANGED <<writer, rank, consoleVars, tfVars, jsonVars>>

---------------------------------------------------------------------------
(* TFEventWriter.  self.writer is the SummaryWriter made by __init__; it is *)
(* modelled by the calls it has received.                                  *)

TFNames == {"loss", "acc"}
TFScalars == {5}
TFTensors == {0}

WriterCall(call, tag, value, step) ==
    [call |-> call, tag |-> tag, value |-> value, step |-> step]

\* TFEventWriter._add_scalar:
\* self.writer.add_scalar(name, scalar, self.trainer.global_step)
TF_add_scalar(calls, name, scalar) ==
    Append(calls, WriterCall("add_scalar", name, scalar,
                             trainer[Self].global_step))

\* TFEventWriter._add_image:
\* self.writer.add_image(name, tensor, self.trainer.global_step)
TF_add_image(calls, name, tensor) ==
    Append(calls, WriterCall("add_image", name, tensor,
                             trainer[Self].global_step))

\* Variant of TF_after_train that closes the SummaryWriter only once.
TF_after_train_once(calls) ==
    IF \E i \in 1..Len(calls) : calls[i].call = "close" THEN calls
    ELSE Append(calls, WriterCall("close", "", 0, 0))

\* TFEventWriter._after_train: self.writer.close()
TF_after_train(calls) == Append(calls, WriterCall("close", "", 0, 0))

TFHostCalls == tfHost.adds + tfHost.after_train

\* Writer.add_scalar(name, scalar) on a TFEventWriter.
TFAddScalar(name, scalar) ==
    /\ writer = "tfevent"
    /\ TFHostCalls < MaxTFCalls
    /\ tfCalls' = IF WriterForwards("tfevent", Self)
                  THEN TF_add_scalar(tfCalls, name, scalar)
                  ELSE tfCalls
    /\ tfHost' = [tfHost EXCEPT !.adds = @ + 1]
    /\ lastOp' = [op |-> "add_scalar", p |-> Self,
                  res |-> IF WriterForwards("tfevent", Self)
                          THEN "done" ELSE "skipped"]
    /\ UNCHANGED <<writer, rank, trainer, consoleVars, jsonVars>>

\* Writer.add_image(name, tensor) on a TFEventWriter.
TFAddImage(name, tensor) ==
    /\ writer = "tfevent"
    /\ TFHostCalls < MaxTFCalls
    /\ tfCalls' = IF WriterForwards("tfevent", Self)
                  THEN TF_add_image(tfCalls, name, tensor)
                  ELSE tfCalls
    /\ tfHost' = [tfHost EXCEPT !.adds = @ + 1]
    /\ lastOp' = [op |-> "add_image", p |-> Self,
                  res |-> IF WriterForwards("tfevent", Self)
                          THEN "done" ELSE "skipped"]
    /\ UNCHANGED <<writer, rank, trainer, consoleVars, jsonVars>>

\* The host runs TFEventWriter._after_train.
TFAfterTrain ==
    /\ writer = "tfevent"
    /\ TFHostCalls < MaxTFCalls
    /\ tfCalls' = TF_after_train(tfCalls)
    /\ tfHost' = [tfHost EXCEPT !.after_train = @ + 1]
    /\ lastOp' = [op |-> "after_train", p |-> Self, res |-> "done"]
    /\ UNCHANGED <<writer, rank, trainer, consoleVars, jsonVars>>

TFNext ==
    \/ \E name \in TFNames, scalar \in TFScalars : TFAddScalar(name, scalar)
    \/ \E name \in TFNames, tensor \in TFTensors : TFAddImage(name, tensor)
    \/ TFAfterTrain
    \/ (writer = "tfevent" /\ HostAdvance(Self))

---------------------------------------------------------------------------
(* JSON values and the io helpers (io.save / io.load on a .json file). *)

\* Metric names given to JSONWriter, one of them a key the record already
\* uses.
JSONNames == {"acc", "epoch_num"}

\* Scalars given to JSONWriter (9 stands for the float 0.9).
JSONScalars == {9}

\* Python numbers: int and float are told apart, in memory and in JSON.
PyInt(n) == [t |-> "int", v |-> n]
PyFloat(n) == [t |-> "float", v |-> n]

\* A dict display {k1: v1, ..., kn: vn}: the pairs are set from left to
\* right, so a repeated key keeps its first place and takes its last value.
RECURSIVE DictOf(_)
DictOf(pairs) ==
    IF pairs = <<>> THEN <<>>
    ELSE LET n == Len(pairs)
         IN  DictSet(DictOf(SubSeq(pairs, 1, n - 1)), pairs[n][1], pairs[n][2])

\* The tokens of a JSON text.
Token(tok, key, val) == [tok |-> tok, key |-> key, val |-> val]
Punct(c) == Token(c, "", PyInt(0))

\* json.dump of one dict: "{", a "key: number" member per item, "}".
EncodeObject(d) ==
    <<Punct("{")>>
    \o [i \in 1..Len(d) |-> Token("member", d[i][1], d[i][2])]
    \o <<Punct("}")>>

RECURSIVE EncodeObjects(_)
EncodeObjects(list) ==
    IF list = <<>> THEN <<>>
    ELSE EncodeObject(Head(list)) \o EncodeObjects(Tail(list))

\* io.save(fname, list): the JSON text of a list of dicts.
Encode(list) == <<Punct("[")>> \o EncodeObjects(list) \o <<Punct("]")>>

DecodeError == [ok |-> FALSE, list |-> <<>>]

\* The objects of a JSON array body; a text that stops early does not parse.
RECURSIVE DecodeObjects(_)
DecodeObjects(ts) ==
    IF ts = <<>> THEN [ok |-> TRUE, list |-> <<>>]
    ELSE IF Head(ts).tok # "{" \/ ~\E i \in 1..Len(ts) : ts[i].tok = "}"
    THEN DecodeError
    ELSE LET c == CHOOSE i \in 1..Len(ts) :
                    /\ ts[i].tok = "}"
                    /\ \A j \in 1..(i - 1) : ts[j].tok # "}"
             members == SubSeq(ts, 2, c - 1)
             obj == DictOf([i \in 1..Len(members) |->
                              <<members[i].key, members[i].val>>])
             rest == DecodeObjects(SubSeq(ts, c + 1, Len(ts)))
         IN  IF (\E i \in 1..Len(members) : members[i].tok # "member")
                \/ ~rest.ok
             THEN DecodeError
             ELSE [ok |-> TRUE, list |-> <<obj>> \o rest.list]

\* io.load(fname): the list of dicts a JSON text holds, or a decode error.
Decode(ts) ==
    IF Len(ts) < 2 \/ ts[1].tok # "[" \/ ts[Len(ts)].tok # "]"
    THEN DecodeError
    ELSE DecodeObjects(SubSeq(ts, 2, Len(ts) - 1))

\* How io.save ends: "ok"; "denied" (open fails with OSError, the file is
\* untouched); "partial" (the file is opened for writing, which truncates
\* it, and a write fails with OSError after half of the text).
SaveOutcomes == {"ok", "denied", "partial"}

---------------------------------------------------------------------------
(* JSONWriter on process p.  All processes use the same save_fname. *)

\* The dict display of JSONWriter._add_scalar.
Json_record(p, name, scalar) ==
    DictOf(<< <<"epoch_num", PyInt(trainer[p].epoch_num)>>,
              <<"global_step", PyInt(trainer[p].global_step)>>,
              <<"local_step", PyInt(trainer[p].local_step)>>,
              <<name, PyFloat(scalar)>> >>)

\* JSONWriter._add_scalar: self.summaries.append({...})
Json_add_scalar(list, p, name, scalar) ==
    Append(list, Json_record(p, name, scalar))

\* Variant of Json_load that ignores the file (no resumption).
Json_load_nothing(content) == [ok |-> TRUE, list |-> <<>>]

\* io.load(self.save_fname) in JSONWriter._before_train
Json_load(content) == Decode(content)

\* Variant of Json_dump that appends to the list the file already holds.
Json_dump_merged(list) ==
    IF file.exists /\ Decode(file.content).ok
    THEN Encode(Decode(file.content).list \o list)
    ELSE Encode(list)

\* The text io.save(self.save_fname, self.summaries) writes.
Json_dump(list) == Encode(list)

\* Variant of Json_after_failure that drops the list when the save fails.
Json_after_failure_cleared(list) == <<>>

\* self.summaries after the except clause of JSONWriter._trigger: untouched.
Json_after_failure(list) == list

\* Variant of Json_caught that lets the error of a failed save propagate.
Json_caught_nothing(outcome) == FALSE

\* except (OSError, IOError): the errors JSONWriter._trigger swallows.
Json_caught(outcome) == outcome \in {"denied", "partial"}

\* JSONWriter(save_dir): a new writer (a new run, with a new trainer) on
\* process p, bound to the same save_fname.
JsonNew(p) ==
    /\ writer = "json"
    /\ runs < MaxRuns
    /\ runs' = runs + 1
    /\ summaries' = [summaries EXCEPT ![p] = <<>>]
    /\ hasList' = [hasList EXCEPT ![p] = FALSE]
    /\ raised' = [raised EXCEPT ![p] = FALSE]
    /\ loaded' = [loaded EXCEPT ![p] = <<>>]
    /\ added' = [added EXCEPT ![p] = <<>>]
    /\ failedAt' = [failedAt EXCEPT ![p] = -1]
    /\ trainer' = [trainer EXCEPT ![p] = TrainerStart]
    /\ lastOp' = [op |-> "new", p |-> p, res |-> "done"]
    /\ UNCHANGED <<writer, rank, consoleVars, tfVars, file, saved>>

\* JSONWriter._before_train
JsonBeforeTrain(p) ==
    /\ writer = "json"
    /\ ~raised[p]
    /\ LET got == IF file.exists THEN Json_load(file.content)
                  ELSE [ok |-> TRUE, list |-> <<>>]
       IN  /\ summaries' = [summaries EXCEPT ![p] = got.list]
           /\ loaded' = [loaded EXCEPT ![p] = got.list]
           /\ raised' = [raised EXCEPT ![p] = ~got.ok]
           /\ lastOp' = [op |-> "before_train", p |-> p,
                         res |-> IF got.ok THEN "done" ELSE "raised"]
    /\ hasList' = [hasList EXCEPT ![p] = TRUE]
    /\ added' = [added EXCEPT ![p] = <<>>]
    /\ failedAt' = [failedAt EXCEPT ![p] = -1]
    /\ UNCHANGED <<writer, rank, trainer, consoleVars, tfVars, file, runs, saved>>

\* Writer.add_scalar(name, scalar) on a JSONWriter.  Before _before_train
\* the attribute summaries does not exist and the hook raises.
JsonAddScalar(p, name, scalar) ==
    /\ writer = "json"
    /\ ~raised[p]
    /\ Len(summaries[p]) < MaxRecords
    /\ IF ~WriterForwards("json", p)
       THEN /\ lastOp' = [op |-> "add_scalar", p |-> p, res |-> "skipped"]
            /\ UNCHANGED <<summaries, added, raised>>
       ELSE IF ~hasList[p]
       THEN /\ raised' = [raised EXCEPT ![p] = TRUE]
            /\ lastOp' = [op |-> "add_scalar", p |-> p, res |-> "raised"]
            /\ UNCHANGED <<summaries, added>>
       ELSE /\ summaries' = [summaries EXCEPT
                               ![p] = Json_add_scalar(@, p, name, scalar)]
            /\ added' = [added EXCEPT
                           ![p] = Append(@, [name |-> name, scalar |-> scalar,
                                             counters |-> trainer[p],
                                             record |-> Json_record(p, name, scalar)])]
            /\ lastOp' = [op |-> "add_scalar", p |-> p, res |-> "done"]
            /\ UNCHANGED raised
    /\ UNCHANGED <<writer, rank, trainer, consoleVars, tfVars, hasList, file,
                   runs, saved, loaded, failedAt>>

\* Writer.add_image(name, tensor) on a JSONWriter: the hook _add_image is
\* the base class's, which does nothing.
JsonAddImage(p) ==
    /\ writer = "json"
    /\ ~raised[p]
    /\ lastOp' = [op |-> "add_image", p |-> p,
                  res |-> IF WriterForwards("json", p) THEN "done" ELSE "skipped"]
    /\ UNCHANGED <<writer, rank, trainer, consoleVars, tfVars, jsonVars>>

\* JSONWriter._trigger, reached from _trigger, _trigger_epoch or _after_train
\* (op), with io.save ending in outcome.
JsonTrigger(p, op, outcome) ==
    /\ writer = "json"
    /\ ~raised[p]
    /\ IF ~hasList[p]
       THEN /\ outcome = "ok"
            /\ raised' = [raised EXCEPT ![p] = TRUE]
            /\ lastOp' = [op |-> op, p |-> p, res |-> "raised"]
            /\ UNCHANGED <<summaries, file, saved, failedAt>>
       ELSE LET text == Json_dump(summaries[p])
            IN  /\ file' = CASE outcome = "ok" ->
                                  [exists |-> TRUE, content |-> text]
                             [] outcome = "denied" -> file
                             [] outcome = "partial" ->
                                  [exists |-> TRUE,
                                   content |-> SubSeq(text, 1, Len(text) \div 2)]
                /\ saved' = CASE outcome = "ok" ->
                                   [valid |-> TRUE, list |-> summaries[p], by |-> p]
                              [] outcome = "denied" -> saved
                              [] outcome = "partial" ->
                                   [valid |-> FALSE, list |-> <<>>, by |-> p]
                /\ summaries' = IF outcome = "ok" THEN summaries
                                ELSE [summaries EXCEPT
                                        ![p] = Json_after_failure(@)]
                /\ raised' = [raised EXCEPT
                                ![p] = outcome # "ok" /\ ~Json_caught(outcome)]
                /\ failedAt' = IF outcome = "ok" THEN failedAt
                               ELSE [failedAt EXCEPT ![p] = Len(summaries[p])]
                /\ lastOp' = [op |-> op, p |-> p,
                              res |-> IF outcome = "ok" THEN "done" ELSE "oserror"]
    /\ UNCHANGED <<writer, rank, trainer, consoleVars, tfVars, hasList, runs,
                   loaded, added>>

JsonSaveOps == {"trigger", "trigger_epoch", "after_train"}

JsonNext(p) ==
    \/ JsonNew(p)
    \/ JsonBeforeTrain(p)
    \/ \E name \in JSONNames, scalar \in JSONScalars : JsonAddScalar(p, name, scalar)
    \/ JsonAddImage(p)
    \/ \E op \in JsonSaveOps, outcome \in SaveOutcomes : JsonTrigger(p, op, outcome)
    \/ (writer = "json" /\ ~raised[p] /\ HostAdvance(p))

---------------------------------------------------------------------------
(* Properties of ConsoleWriter. *)

ConsoleTriggered ==
    writer = "console" /\ lastOp.op \in {"trigger", "trigger_epoch"}

\* The names of the calls in a call history.
CallNames(calls) == {calls[i][1] : i \in 1..Len(calls)}

\* The scalar of the last call for name n in a call history.
LastValue(calls, n) ==
    LET last == CHOOSE i \in 1..Len(calls) :
                  /\ calls[i][1] = n
                  /\ \A j \in (i + 1)..Len(calls) : calls[j][1] # n
    IN  calls[last][2]

\* The names of S as the one strictly increasing sequence.
Increasing(S) ==
    CHOOSE s \in [1..Cardinality(S) -> S] :
      \A i, j \in 1..Cardinality(S) : i < j => StrLess(s[i], s[j])

\* C1: after every ConsoleWriter trigger (_trigger or _trigger_epoch) the
\* buffer is empty, whether all, some or none of the buffered names matched
\* the patterns; and a trigger logs nothing when no call since the previous
\* trigger gave a matching name, so an entry that was buffered before an
\* earlier trigger is never logged by a later one.
C1_BufferEmptyAfterTrigger ==
    ConsoleTriggered =>
        /\ scalars = <<>>
        /\ (\A n \in CallNames(flushed) : ~Match(matcher, n)) => emitted = <<>>

\* C1 witness: the second trigger has run on the master after calls with a
\* matching and a non-matching name.
C1_Witness ==
    /\ ConsoleTriggered
    /\ is_master(Self)
    /\ nTriggers = 2
    /\ \E n \in CallNames(flushed) : Match(matcher, n)
    /\ \E n \in CallNames(flushed) : ~Match(matcher, n)

\* The message a trigger must log for the calls made since the previous
\* trigger: one line per distinct matching name, in increasing order of
\* name, with the scalar of the last call for that name.
ExpectedLog(calls) ==
    LET S == {n \in CallNames(calls) : is_master(Self) /\ Match(matcher, n)}
        s == Increasing(S)
        lines == [i \in 1..Cardinality(S) |-> Text(s[i], LastValue(calls, s[i]))]
    IN  IF S = {} THEN <<>> ELSE <<Join(Separator, <<<<>>>> \o lines)>>

\* C7: what a ConsoleWriter trigger logs is determined by the add_scalar
\* calls since the previous trigger: one line per distinct buffered name that
\* matches the patterns, in lexicographic order of name whatever the
\* insertion order, with the value of the last add_scalar for that name;
\* no message at all when no buffered name matches.
C7_TriggerOutput ==
    ConsoleTriggered => emitted = ExpectedLog(flushed)

\* C7 witness: a trigger has logged two lines whose names were added in
\* decreasing order, one of them added twice.
C7_Witness ==
    /\ ConsoleTriggered
    /\ emitted # <<>>
    /\ Len(flushed) = 3
    /\ StrLess(flushed[2][1], flushed[1][1])
    /\ flushed[3][1] = flushed[1][1]
    /\ flushed[3][2] # flushed[1][2]
    /\ \A n \in CallNames(flushed) : Match(matcher, n)

---------------------------------------------------------------------------
(* Properties of TFEventWriter. *)

\* Number of calls of one kind the SummaryWriter has received.
RECURSIVE CountCalls(_, _)
CountCalls(calls, kinds) ==
    IF calls = <<>> THEN 0
    ELSE (IF Head(calls).call \in kinds THEN 1 ELSE 0)
         + CountCalls(Tail(calls), kinds)

\* The SummaryWriter received a write after a close.
WriteAfterClose(calls) ==
    \E i, j \in 1..Len(calls) :
      i < j /\ calls[i].call = "close" /\ calls[j].call # "close"

\* C8 as stated: over any sequence of add_scalar, add_image and after_train
\* calls, the underlying writer is closed at most once (exactly once when
\* training has ended) and nothing is forwarded to it after the close.
C8_ClosedOnceNoLateWrite ==
    writer = "tfevent" =>
        /\ CountCalls(tfCalls, {"close"}) <= 1
        /\ ~WriteAfterClose(tfCalls)

\* C8 amended: TFEventWriter keeps no record of the close.  Every
\* _after_train call closes the underlying writer once more, and every
\* add_scalar / add_image on the primary process is forwarded, also after a
\* close; so the writer is closed exactly once, with no write after it, only
\* when the host calls after_train once and adds nothing afterwards.
C8_CloseEveryAfterTrain ==
    writer = "tfevent" =>
        /\ CountCalls(tfCalls, {"close"}) = tfHost.after_train
        /\ CountCalls(tfCalls, {"add_scalar", "add_image"})
             = (IF is_master(Self) THEN tfHost.adds ELSE 0)
        /\ (lastOp.op \in {"add_scalar", "add_image"} /\ is_master(Self))
             => tfCalls[Len(tfCalls)].call = lastOp.op

\* C8 witness: the host called after_train twice and added a scalar after
\* the first close; the SummaryWriter received all of it.
C8_Witness ==
    /\ writer = "tfevent"
    /\ tfHost.after_train = 2
    /\ CountCalls(tfCalls, {"close"}) = 2
    /\ WriteAfterClose(tfCalls)

---------------------------------------------------------------------------
(* Properties of JSONWriter. *)

\* The last call was a save by JSONWriter that io.save completed.
JsonSaved ==
    writer = "json" /\ lastOp.op \in JsonSaveOps /\ lastOp.res = "done"

IsPrefix(a, b) == Len(a) <= Len(b) /\ SubSeq(b, 1, Len(a)) = a

\* The records appended by a history of add_scalar calls.
RecordsOf(calls) == [i \in 1..Len(calls) |-> calls[i].record]

\* C2: when io.save fails with an OS/IO error, _trigger (also reached from
\* _trigger_epoch and _after_train) does not raise to its caller, and the
\* summaries list after the attempt equals the list before it.
C2_FailedSaveSwallowed ==
    [][(writer = "json" /\ lastOp'.res = "oserror")
         => /\ summaries' = summaries
            /\ ~raised'[lastOp'.p]
            /\ hasList' = hasList]_vars

\* C2 witness: _after_train has just failed half way through the write, with
\* two records in memory.
C2_Witness ==
    /\ writer = "json"
    /\ lastOp.op = "after_train"
    /\ lastOp.res = "oserror"
    /\ Len(summaries[lastOp.p]) = 2
    /\ file.exists
    /\ ~Decode(file.content).ok

\* C3: right after every successful save the file holds the whole in-memory
\* list, and that list is the one loaded by _before_train followed by every
\* record added since, in call order, whether or not a save failed in
\* between: a failed write that is followed by a successful one loses
\* nothing.
C3_SavedFileIsWholeList ==
    JsonSaved =>
        LET p == lastOp.p
            got == Decode(file.content)
        IN  /\ file.exists
            /\ got.ok
            /\ got.list = summaries[p]
            /\ got.list = loaded[p] \o RecordsOf(added[p])

\* C3 witness: a save succeeded after a save that failed when the list held
\* one record, a second record having been added after the failure.
C3_Witness ==
    /\ JsonSaved
    /\ failedAt[lastOp.p] = 1
    /\ Len(added[lastOp.p]) = 2

\* C4: _before_train on a writer bound to a path whose file was written by a
\* successful save of list L sets the in-memory list to L (same order, same
\* content), and to the empty list when no file exists; what the run adds
\* goes after L, so every file the run saves has L as a prefix.
C4_ResumeRoundTrip ==
    writer = "json" =>
        \A p \in Procs :
          /\ (lastOp.op = "before_train" /\ lastOp.p = p /\ saved.valid)
               => (lastOp.res = "done" /\ summaries[p] = saved.list)
          /\ (lastOp.op = "before_train" /\ lastOp.p = p /\ ~file.exists)
               => (lastOp.res = "done" /\ summaries[p] = <<>>)
          /\ hasList[p] => IsPrefix(loaded[p], summaries[p])
          /\ (JsonSaved /\ lastOp.p = p)
               => IsPrefix(loaded[p], Decode(file.content).list)

\* C4 witness: a new writer instance has loaded a one-record list left by the
\* previous run, added a record and saved.
C4_Witness ==
    /\ JsonSaved
    /\ runs = 1
    /\ Len(loaded[lastOp.p]) = 1
    /\ Len(added[lastOp.p]) = 1
    /\ Len(Decode(file.content).list) = 2

\* C5: the add_scalar calls made since _before_train grew the list by one
\* record each, in call order, and each record carries the epoch_num,
\* global_step and local_step the trainer had at the call; the records
\* before them are unchanged.
C5_OneRecordPerCall ==
    (writer = "json" /\ lastOp.op = "add_scalar") =>
        LET p == lastOp.p
            n == Len(loaded[p])
        IN  /\ Len(summaries[p]) = n + Len(added[p])
            /\ IsPrefix(loaded[p], summaries[p])
            /\ \A i \in 1..Len(added[p]) :
                 LET r == summaries[p][n + i]
                     c == added[p][i].counters
                 IN  /\ DictGet(r, "epoch_num") = PyInt(c.epoch_num)
                     /\ DictGet(r, "global_step") = PyInt(c.global_step)
                     /\ DictGet(r, "local_step") = PyInt(c.local_step)

CounterKeys == {"epoch_num", "global_step", "local_step"}

\* A record of the documented shape: the three integer counters and exactly
\* one more key, holding a scalar.
WellShaped(r) ==
    /\ Len(r) = 4
    /\ CounterKeys \subseteq DictKeys(r)
    /\ \A k \in CounterKeys : DictGet(r, k).t = "int"
    /\ \E k \in DictKeys(r) \ CounterKeys : DictGet(r, k).t = "float"

\* C9: every record in a summaries list, and every record of a saved
\* scalars.json, has the keys epoch_num, global_step and local_step holding
\* integer counters plus exactly one more key holding the scalar, for every
\* metric name.
C9_RecordShape ==
    writer = "json" =>
        /\ \A p \in Procs : \A i \in 1..Len(summaries[p]) :
             WellShaped(summaries[p][i])
        /\ saved.valid =>
             \A i \in 1..Len(Decode(file.content).list) :
               WellShaped(Decode(file.content).list[i])

\* C10: two processes on one save path.  A step of one process never changes
\* the other's in-memory list; a save writes the file as the saving
\* process's whole list and nothing else (no merge with the file or with the
\* other process's list); no other step changes the file.
C10_IndependentWholeFile ==
    [][/\ \A q \in Procs : q # lastOp'.p => summaries'[q] = summaries[q]
       /\ (lastOp'.op \in JsonSaveOps /\ lastOp'.res = "done")
            => /\ file'.exists
               /\ Decode(file'.content)
                    = [ok |-> TRUE, list |-> summaries[lastOp'.p]]
       /\ lastOp'.op \notin JsonSaveOps => file' = file]_vars

\* C10 witness: a process has just saved while the other process, which
\* loaded nothing, holds a record the saver does not; the file is the
\* saver's list, over an earlier save of the other process.
C10_Witness ==
    /\ JsonSaved
    /\ \E q \in Procs \ {lastOp.p} :
         /\ loaded[q] = <<>>
         /\ loaded[lastOp.p] = <<>>
         /\ summaries[lastOp.p] # <<>>
         /\ \E i \in 1..Len(summaries[q]) :
              \A j \in 1..Len(summaries[lastOp.p]) :
                summaries[q][i] # summaries[lastOp.p][j]
    /\ Decode(file.content).list = summaries[lastOp.p]

---------------------------------------------------------------------------
(* The gate of the Writer base class. *)

AddCalls == {"add_scalar", "add_image"}

\* C6: add_scalar and add_image of a master_only writer (ConsoleWriter,
\* TFEventWriter) never reach the hook on a non-primary process and leave
\* the writer's state as it was, and always reach it on the primary one;
\* add_scalar of JSONWriter, which is not master_only, reaches the hook on
\* every process.
C6_MasterOnlyGating ==
    /\ writer = "console" =>
         /\ ~is_master(Self) => scalars = <<>>
         /\ lastOp.op \in AddCalls => (lastOp.res = "done" <=> is_master(Self))
         /\ (lastOp.op = "add_scalar" /\ is_master(Self)) =>
              LET call == interval[Len(interval)]
              IN  call[1] \in DictKeys(scalars)
                  /\ DictGet(scalars, call[1]) = call[2]
    /\ writer = "tfevent" =>
         /\ ~is_master(Self) => CountCalls(tfCalls, AddCalls) = 0
         /\ lastOp.op \in AddCalls => (lastOp.res = "done" <=> is_master(Self))
         /\ (lastOp.op \in AddCalls /\ is_master(Self)) =>
              tfCalls[Len(tfCalls)].call = lastOp.op
    /\ writer = "json" =>
         /\ lastOp.op \in AddCalls => lastOp.res # "skipped"
         /\ (lastOp.op = "add_scalar" /\ hasList[lastOp.p]) =>
              LET p == lastOp.p
              IN  /\ lastOp.res = "done"
                  /\ added[p] # <<>>
                  /\ summaries[p] # <<>>
                  /\ summaries[p][Len(summaries[p])]
                       = added[p][Len(added[p])].record

\* C6 witness: a JSONWriter on a non-primary process has recorded two
\* scalars.
C6_Witness ==
    /\ writer = "json"
    /\ ~is_master(Self)
    /\ lastOp.op = "add_scalar"
    /\ lastOp.res = "done"
    /\ Len(summaries[Self]) = 2

---------------------------------------------------------------------------
(* The initial state: the writer has been constructed. *)

Init ==
    /\ writer \in {"console", "tfevent", "json"}
    /\ rank \in {r \in [Procs -> {0, 1}] : r[1] # r[2]}
    /\ trainer = [p \in Procs |-> TrainerStart]
    /\ matcher \in PatternLists
    /\ (writer # "console" => matcher = {<<42>>})
    /\ scalars = <<>>
    /\ emitted = <<>>
    /\ interval = <<>>
    /\ flushed = <<>>
    /\ nTriggers = 0
    /\ tfCalls = <<>>
    /\ tfHost = [adds |-> 0, after_train |-> 0]
    /\ summaries = [p \in Procs |-> <<>>]
    /\ hasList = [p \in Procs |-> FALSE]
    /\ file = [exists |-> FALSE, content |-> <<>>]
    /\ raised = [p \in Procs |-> FALSE]
    /\ runs = 0
    /\ saved = [valid |-> FALSE, list |-> <<>>, by |-> Self]
    /\ loaded = [p \in Procs |-> <<>>]
    /\ added = [p \in Procs |-> <<>>]
    /\ failedAt = [p \in Procs |-> -1]
    /\ lastOp = [op |-> "init", p |-> Self, res |-> "done"]

Next ==
    \/ ConsoleNext
    \/ TFNext
    \/ JsonNext(Self)

Spec == Init /\ [][Next]_vars

\* Two processes, each with its own JSONWriter on the same save_fname.
InitMulti == Init /\ writer = "json"

\* The steps of the two processes interleave; each save is one step and
\* succeeds.
NextMulti ==
    \E p \in Procs :
      \/ JsonBeforeTrain(p)
      \/ \E name \in JSONNames, scalar \in JSONScalars :
            JsonAddScalar(p, name, scalar)
      \/ JsonTrigger(p, "trigger", "ok")

SpecMulti == InitMulti /\ [][NextMulti]_vars

===========================================================================
